---- MODULE Spec2Model ----
(***************************************************************************)
(* Model of the task service of supchaser/LO_test_task:                    *)
(*   - repository.TaskRepository: map[int64]*Task guarded by sync.RWMutex  *)
(*   - usecase.TaskUsecase: validation, ID and timestamp stamping, merge   *)
(*   - validate.CheckTaskTitle / CheckTaskDescription                      *)
(* Tasks are heap objects reached through pointers (indices into heap),    *)
(* because GetTaskByID returns the stored pointer and the usecase writes   *)
(* through it.  Every goroutine (one per request) is a process with a      *)
(* program counter; strings are sequences of Unicode code points.          *)
(***************************************************************************)
EXTENDS FiniteSets, Integers, Sequences, TLC

\* ---------------------------------------------------------------- bounds
MaxTicks       == 1   \* clock advances in one run
MaxCalls       == 3   \* calls started in one run of Spec
MaxCallsSeq    == 4   \* calls started in one run of SpecSeq
MaxCallsVal    == 2   \* calls started in one run of SpecVal
MaxCallsHttp   == 2   \* requests received in one run of SpecHttp
MaxCallsRepo   == 3   \* calls started in one run of SpecRepo
MaxCallsUpd    == 3   \* calls started in one run of SpecUpd
MaxCallsLive   == 3   \* calls started in one run of SpecLive
MaxSignals     == 3   \* signals sent to the process in one run of SpecMain
NumCallers     == 3   \* goroutines of SpecStore, one store call each

\* ------------------------------------------------------ program constants
Millisecond              == 1000000
MaxTaskTitleLength       == 200
MinTaskTitleLength       == 3
MaxTaskDescriptionLength == 5000

\* the zero time.Time of a models.Task literal without timestamps: it lies
\* before every time.Now()
ZeroTime == 0 - 1

StatusPending    == "pending"
StatusInProgress == "in_progress"
StatusCompleted  == "completed"

\* errors: `is' is the sentinel reached by errors.Is, `msg' the text that
\* fmt.Errorf("%w: ...") adds; the nil error has is = "".
NilErr          == [is |-> "", msg |-> ""]
ErrTaskNotFound == [is |-> "task not found", msg |-> ""]
ErrInvalidID    == [is |-> "invalid task ID", msg |-> ""]
ErrValidation   == [is |-> "validation error", msg |-> ""]
Wrap(sentinel, text) == [is |-> sentinel.is, msg |-> text]
ErrorsIs(err, sentinel) == err.is = sentinel.is

\* ------------------------------------------------------------- validation
Repeat(c, n) == [i \in 1..n |-> c]

\* utf8.RuneCountInString
RuneCount(s) == Len(s)

\* one rune of the class [A-Za-z0-9А-Яа-я\s.,!?-]
InTitleClass(c) ==
    \/ c >= 65 /\ c <= 90
    \/ c >= 97 /\ c <= 122
    \/ c >= 48 /\ c <= 57
    \/ c >= 1040 /\ c <= 1071
    \/ c >= 1072 /\ c <= 1103
    \/ c \in {9, 10, 12, 13, 32}
    \/ c \in {46, 44, 33, 63, 45}

\* taskTitleRegex.MatchString: ^[class]+$
taskTitleRegexMatch(s) == Len(s) >= 1 /\ \A i \in 1..Len(s) : InTitleClass(s[i])

\* mutant of CheckTaskTitle: the lower limit compared with <=
CheckTaskTitleOffByOne(title) ==
    IF title = <<>> THEN Wrap(ErrValidation, "task title cannot be empty")
    ELSE IF RuneCount(title) <= MinTaskTitleLength
         THEN Wrap(ErrValidation, "task title must be at least 3 characters")
    ELSE IF RuneCount(title) > MaxTaskTitleLength
         THEN Wrap(ErrValidation, "task title cannot be longer than 200 characters")
    ELSE IF ~taskTitleRegexMatch(title)
         THEN Wrap(ErrValidation, "task title contains invalid characters")
    ELSE NilErr

CheckTaskTitle(title) ==
    IF title = <<>> THEN Wrap(ErrValidation, "task title cannot be empty")
    ELSE IF RuneCount(title) < MinTaskTitleLength
         THEN Wrap(ErrValidation, "task title must be at least 3 characters")
    ELSE IF RuneCount(title) > MaxTaskTitleLength
         THEN Wrap(ErrValidation, "task title cannot be longer than 200 characters")
    ELSE IF ~taskTitleRegexMatch(title)
         THEN Wrap(ErrValidation, "task title contains invalid characters")
    ELSE NilErr

CheckTaskDescription(description) ==
    IF RuneCount(description) > MaxTaskDescriptionLength
    THEN Wrap(ErrValidation, "task description cannot be longer than 5000 characters")
    ELSE NilErr

\* ------------------------------------------------------------------ state
VARIABLES
    tasks,   \* r.tasks: function from the stored IDs to pointers
    mu,      \* r.mu: [w |-> writer or 0, r |-> set of readers]
    heap,    \* sequence of Task objects; a pointer is an index, 0 is nil
    clock,   \* time.Now() in nanoseconds since the process started
    pc,      \* position of every goroutine
    loc,     \* arguments, locals and results of every goroutine
    calls    \* number of calls started (in SpecMain: of signals sent)

vars == <<tasks, mu, heap, clock, pc, loc, calls>>

\* Spec runs two goroutines, SpecSeq one, SpecStore NumCallers.
Procs      == {1, 2}
SeqProcs   == {1}
StoreProcs == 1..NumCallers
AllProcs   == Procs \cup SeqProcs \cup StoreProcs \cup {NumCallers + 1}

\* a JSON value of a request body, as far as json.Decoder tells them apart
JsonAbsent == [t |-> "absent", s |-> <<>>]
NoBody     == [kind |-> "syntax", title |-> JsonAbsent,
               description |-> JsonAbsent, status |-> JsonAbsent]

\* what the ResponseWriter has received: 0 is "nothing written yet"
NoResponse == [code |-> 0, msg |-> ""]

LocInit == [op |-> "", id |-> 0, title |-> <<>>, desc |-> <<>>, status |-> "",
            task |-> 0, ex |-> 0, sreg |-> <<>>, streg |-> "", now |-> 0,
            start |-> 0, rem |-> {}, list |-> <<>>, ret |-> 0, err |-> NilErr,
            path |-> <<>>, body |-> NoBody, resp |-> NoResponse,
            serverErr |-> <<>>, quit |-> <<>>, notify |-> FALSE,
            shutdown |-> FALSE, logged |-> {}, exit |-> 0]

Init ==
    /\ tasks = <<>>
    /\ mu = [w |-> 0, r |-> {}]
    /\ heap = <<>>
    /\ clock = 0
    /\ pc = [p \in AllProcs |-> "idle"]
    /\ loc = [p \in AllProcs |-> LocInit]
    /\ calls = 0

\* ------------------------------------------------------------------ clock
\* time.Now() never goes back; it advances by a nanosecond or a millisecond.
Tick(steps) ==
    /\ \E d \in steps :
         /\ (clock \div Millisecond) + (clock % Millisecond) < MaxTicks
         /\ clock' = clock + d
    /\ UNCHANGED <<tasks, mu, heap, pc, loc, calls>>

\* ------------------------------------------------------------------- lock
CanLock  == mu.w = 0 /\ mu.r = {}
CanRLock == mu.w = 0

\* r.mu.Lock(), r.mu.RLock() once they are granted
Lock(m, p)  == [m EXCEPT !.w = p]
RLock(m, p) == [m EXCEPT !.r = @ \cup {p}]

\* mutant of Unlock: the write lock is kept
UnlockNever(m) == m

\* defer r.mu.Unlock(), defer r.mu.RUnlock()
Unlock(m)      == [m EXCEPT !.w = 0]
RUnlock(m, p)  == [m EXCEPT !.r = @ \ {p}]

\* --------------------------------------------------------------- helpers
\* time.Now().UnixNano() / int64(time.Millisecond)
NewTaskID(now) == now \div Millisecond

\* mutant of NewTask: the status of a new task is not StatusPending
NewTaskInProgress(now, title, description) ==
    [ID |-> NewTaskID(now), Title |-> title, Description |-> description,
     Status |-> StatusInProgress, CreatedAt |-> now, UpdatedAt |-> now]

\* the models.Task literal of Usecase.CreateTask
NewTask(now, title, description) ==
    [ID |-> NewTaskID(now), Title |-> title, Description |-> description,
     Status |-> StatusPending, CreatedAt |-> now, UpdatedAt |-> now]

\* task.CreatedAt = now; task.UpdatedAt = now
StampCreated(t, now) == [t EXCEPT !.CreatedAt = now, !.UpdatedAt = now]

\* mutant of MapInsert: an ID that is stored keeps its entry
MapInsertIfAbsent(m, id, ptr) ==
    [k \in DOMAIN m \cup {id} |-> IF k \in DOMAIN m THEN m[k] ELSE ptr]

\* mutant of MapInsert: the map is replaced by one holding the new entry
MapInsertAlone(m, id, ptr) == [k \in {id} |-> ptr]

\* r.tasks[id] = ptr
MapInsert(m, id, ptr) == [k \in DOMAIN m \cup {id} |-> IF k = id THEN ptr ELSE m[k]]

\* delete(r.tasks, id)
MapDelete(m, id) == [k \in DOMAIN m \ {id} |-> m[k]]

\* task, exists := r.tasks[id]
MapHas(m, id) == id \in DOMAIN m

\* mutant of CreateOutcome: the ID is not checked
CreateOutcomeUnchecked(m, h, t, now) ==
    [err |-> NilErr, tasks |-> MapInsert(m, h[t].ID, t),
     heap |-> [h EXCEPT ![t] = StampCreated(h[t], now)], ret |-> t]

\* repository.go 30-49, the body of CreateTask under the write lock
CreateOutcome(m, h, t, now) ==
    IF h[t].ID < 0
    THEN [err |-> ErrInvalidID, tasks |-> m, heap |-> h, ret |-> 0]
    ELSE [err |-> NilErr, tasks |-> MapInsert(m, h[t].ID, t),
          heap |-> [h EXCEPT ![t] = StampCreated(h[t], now)], ret |-> t]

\* mutant of GetOutcome: the ID 0 is taken for "no ID"
GetOutcomeZeroAbsent(m, id) ==
    IF id = 0 \/ ~MapHas(m, id) THEN [err |-> ErrTaskNotFound, task |-> 0]
    ELSE [err |-> NilErr, task |-> m[id]]

\* repository.go 58-72, the body of GetTaskByID under the read lock
GetOutcome(m, id) ==
    IF ~MapHas(m, id) THEN [err |-> ErrTaskNotFound, task |-> 0]
    ELSE [err |-> NilErr, task |-> m[id]]

\* mutant of DeleteOutcome: the entry is reported deleted and kept
DeleteOutcomeKeeps(m, id) ==
    IF ~MapHas(m, id) THEN [err |-> ErrTaskNotFound, tasks |-> m]
    ELSE [err |-> NilErr, tasks |-> m]

\* mutant of DeleteOutcome: no existence check before delete()
DeleteOutcomeUnchecked(m, id) == [err |-> NilErr, tasks |-> MapDelete(m, id)]

\* repository.go 131-146, the body of DeleteTask under the write lock
DeleteOutcome(m, id) ==
    IF ~MapHas(m, id) THEN [err |-> ErrTaskNotFound, tasks |-> m]
    ELSE [err |-> NilErr, tasks |-> MapDelete(m, id)]

\* mutant of UpdateFind: any stored entry will do
UpdateFindAny(m, id) ==
    IF DOMAIN m = {} THEN [err |-> ErrTaskNotFound, ex |-> 0]
    ELSE [err |-> NilErr, ex |-> m[CHOOSE k \in DOMAIN m : TRUE]]

\* repository.go 103-110, the lookup of UpdateTask under the write lock
UpdateFind(m, id) ==
    IF ~MapHas(m, id) THEN [err |-> ErrTaskNotFound, ex |-> 0]
    ELSE [err |-> NilErr, ex |-> m[id]]

\* mutant of StampUpdated: the update stamps CreatedAt as well
StampUpdatedBoth(t, now) == [t EXCEPT !.UpdatedAt = now, !.CreatedAt = now]

\* existingTask.UpdatedAt = <the value time.Now() returned>
StampUpdated(t, now) == [t EXCEPT !.UpdatedAt = now]

\* mutant of MatchesFilter: the empty filter is not "all"
MatchesFilterStrict(statusFilter, status) == status = statusFilter

\* statusFilter == "" || task.Status == statusFilter
MatchesFilter(statusFilter, status) == statusFilter = "" \/ status = statusFilter

\* a goroutine that can take the next call: it has not started, its call
\* has returned, or its handler has written the response
Idle(p) == pc[p] \in {"idle", "done", "responded"}

\* the callers of the store that are no usecase
StoreLevel(op) == op \in {"Store.CreateTask", "Store.UpdateTask"}

\* mutant of UcReturn: the usecase wraps the error it hands on
UcReturnWrapped(err) ==
    IF err = NilErr THEN err ELSE [is |-> "usecase error", msg |-> err.is]

\* if err != nil { return nil, err }
UcReturn(err) == err

\* what a call leaves behind once it has returned: arguments and results
Returned(l) == [l EXCEPT !.task = 0, !.ex = 0, !.sreg = <<>>, !.streg = "",
                         !.now = 0, !.rem = {},
                         !.err = IF StoreLevel(l.op) THEN @ ELSE UcReturn(@)]

\* a call of the usecase (or of the store) begins: the caller is a
\* goroutine of its own, or a delivery handler at its call of the usecase
Begin(p, op, maxCalls) ==
    \/ /\ Idle(p)
       /\ calls < maxCalls
       /\ calls' = calls + 1
    \/ /\ pc[p] = "dv_call"
       /\ calls' = calls

\* ------------------------------------------------- Usecase.CreateTask
\* usecase.go 26-49: validation, then the Task literal.
UcCreateTask(p, title, description, maxCalls) ==
    /\ Begin(p, "createTask", maxCalls)
    /\ LET e1 == CheckTaskTitle(title)
           e2 == CheckTaskDescription(description)
           l  == [LocInit EXCEPT !.op = "createTask", !.title = title,
                                 !.desc = description, !.start = clock]
       IN IF e1 # NilErr
          THEN /\ loc' = [loc EXCEPT ![p] = [l EXCEPT !.err = e1]]
               /\ pc' = [pc EXCEPT ![p] = "done"]
               /\ UNCHANGED heap
          ELSE IF e2 # NilErr
          THEN /\ loc' = [loc EXCEPT ![p] = [l EXCEPT !.err = e2]]
               /\ pc' = [pc EXCEPT ![p] = "done"]
               /\ UNCHANGED heap
          ELSE /\ heap' = Append(heap, NewTask(clock, title, description))
               /\ loc' = [loc EXCEPT ![p] = [l EXCEPT !.task = Len(heap) + 1]]
               /\ pc' = [pc EXCEPT ![p] = "rc_lock"]
    /\ UNCHANGED <<tasks, mu, clock>>

\* ------------------------------------------------- Repository.CreateTask
\* repository.go 328: a caller of the store itself,
\* repo.CreateTask(ctx, &models.Task{ID: id}); the other fields are zero.
StoreCreateTask(p, id, maxCalls) ==
    /\ Begin(p, "Store.CreateTask", maxCalls)
    /\ heap' = Append(heap, [ID |-> id, Title |-> <<>>, Description |-> <<>>,
                             Status |-> "", CreatedAt |-> ZeroTime,
                             UpdatedAt |-> ZeroTime])
    /\ loc' = [loc EXCEPT ![p] = [LocInit EXCEPT !.op = "Store.CreateTask",
                                                 !.id = id, !.start = clock,
                                                 !.task = Len(heap) + 1]]
    /\ pc' = [pc EXCEPT ![p] = "rc_lock"]
    /\ UNCHANGED <<tasks, mu, clock>>

\* repository.go 27-42: Lock, ID check, stamps, insert.
RepoCreateLock(p) ==
    /\ pc[p] = "rc_lock"
    /\ CanLock
    /\ mu' = Lock(mu, p)
    /\ LET o == CreateOutcome(tasks, heap, loc[p].task, clock) IN
         /\ tasks' = o.tasks
         /\ heap' = o.heap
         /\ loc' = [loc EXCEPT ![p].err = o.err, ![p].ret = o.ret]
    /\ pc' = [pc EXCEPT ![p] = "rc_unlock"]
    /\ UNCHANGED <<clock, calls>>

\* repository.go 28 (deferred Unlock) and the return through the usecase.
RepoCreateUnlock(p) ==
    /\ pc[p] = "rc_unlock"
    /\ mu' = Unlock(mu)
    /\ pc' = [pc EXCEPT ![p] = "done"]
    /\ loc' = [loc EXCEPT ![p] = Returned(@)]
    /\ UNCHANGED <<tasks, heap, clock, calls>>

\* ------------------------------------------------- Repository.GetTaskByID
\* usecase.go 68-71 (GetTask) is a pure delegation.
UcGetTask(p, id, maxCalls) ==
    /\ Begin(p, "getTask", maxCalls)
    /\ loc' = [loc EXCEPT ![p] = [LocInit EXCEPT !.op = "getTask", !.id = id,
                                                 !.start = clock]]
    /\ pc' = [pc EXCEPT ![p] = "rg_lock"]
    /\ UNCHANGED <<tasks, mu, heap, clock>>

\* repository.go 55-72: RLock and the lookup.
RepoGetLock(p) ==
    /\ pc[p] = "rg_lock"
    /\ CanRLock
    /\ mu' = RLock(mu, p)
    /\ LET o == GetOutcome(tasks, loc[p].id) IN
         loc' = [loc EXCEPT ![p].err = o.err, ![p].task = o.task]
    /\ pc' = [pc EXCEPT ![p] = "rg_unlock"]
    /\ UNCHANGED <<tasks, heap, clock, calls>>

\* repository.go 56 (deferred RUnlock); the caller is GetTask (usecase.go
\* 71-85) or UpdateTask (usecase.go 112-119).
RepoGetUnlock(p) ==
    /\ pc[p] = "rg_unlock"
    /\ mu' = RUnlock(mu, p)
    /\ IF loc[p].op = "updateTask" /\ loc[p].err = NilErr
       THEN /\ pc' = [pc EXCEPT ![p] = "uu_title"]
            /\ UNCHANGED loc
       ELSE /\ pc' = [pc EXCEPT ![p] = "done"]
            /\ loc' = [loc EXCEPT ![p] = Returned([@ EXCEPT !.ret = loc[p].task])]
    /\ UNCHANGED <<tasks, heap, clock, calls>>

\* ------------------------------------------------- Repository.GetAllTasks
\* usecase.go 88-91 (ListTasks) is a pure delegation.
UcListTasks(p, statusFilter, maxCalls) ==
    /\ Begin(p, "listTasks", maxCalls)
    /\ loc' = [loc EXCEPT ![p] = [LocInit EXCEPT !.op = "listTasks",
                                                 !.status = statusFilter,
                                                 !.start = clock]]
    /\ pc' = [pc EXCEPT ![p] = "rl_lock"]
    /\ UNCHANGED <<tasks, mu, heap, clock>>

\* repository.go 78-81: RLock, tasks := []*models.Task{}; the range loop
\* will visit every key of the map once, in an unspecified order.
RepoListLock(p) ==
    /\ pc[p] = "rl_lock"
    /\ CanRLock
    /\ mu' = RLock(mu, p)
    /\ loc' = [loc EXCEPT ![p].rem = DOMAIN tasks, ![p].list = <<>>]
    /\ pc' = [pc EXCEPT ![p] = "rl_loop"]
    /\ UNCHANGED <<tasks, heap, clock, calls>>

\* repository.go 82-86: one iteration of the range loop.
RepoListIter(p) ==
    /\ pc[p] = "rl_loop"
    /\ \E k \in loc[p].rem :
         LET t == tasks[k] IN
         loc' = [loc EXCEPT ![p].rem = @ \ {k},
                            ![p].list = IF MatchesFilter(loc[p].status, heap[t].Status)
                                        THEN Append(@, t) ELSE @]
    /\ UNCHANGED <<tasks, mu, heap, clock, pc, calls>>

\* repository.go 79 (deferred RUnlock) and 94: the loop is over.
RepoListUnlock(p) ==
    /\ pc[p] = "rl_loop"
    /\ loc[p].rem = {}
    /\ mu' = RUnlock(mu, p)
    /\ pc' = [pc EXCEPT ![p] = "done"]
    /\ loc' = [loc EXCEPT ![p] = Returned(@)]
    /\ UNCHANGED <<tasks, heap, clock, calls>>

\* ------------------------------------------------- Repository.DeleteTask
\* usecase.go 168-171 (DeleteTask) is a pure delegation.
UcDeleteTask(p, id, maxCalls) ==
    /\ Begin(p, "deleteTask", maxCalls)
    /\ loc' = [loc EXCEPT ![p] = [LocInit EXCEPT !.op = "deleteTask", !.id = id,
                                                 !.start = clock]]
    /\ pc' = [pc EXCEPT ![p] = "rd_lock"]
    /\ UNCHANGED <<tasks, mu, heap, clock>>

\* repository.go 128-146: Lock, existence check, delete.
RepoDeleteLock(p) ==
    /\ pc[p] = "rd_lock"
    /\ CanLock
    /\ mu' = Lock(mu, p)
    /\ LET o == DeleteOutcome(tasks, loc[p].id) IN
         /\ tasks' = o.tasks
         /\ loc' = [loc EXCEPT ![p].err = o.err]
    /\ pc' = [pc EXCEPT ![p] = "rd_unlock"]
    /\ UNCHANGED <<heap, clock, calls>>

\* repository.go 129 (deferred Unlock).
RepoDeleteUnlock(p) ==
    /\ pc[p] = "rd_unlock"
    /\ mu' = Unlock(mu)
    /\ pc' = [pc EXCEPT ![p] = "done"]
    /\ loc' = [loc EXCEPT ![p] = Returned(@)]
    /\ UNCHANGED <<tasks, heap, clock, calls>>

\* ------------------------------------------------- Usecase.UpdateTask
\* usecase.go 109-112: the call starts with GetTaskByID.
UcUpdateTask(p, id, newTitle, newDescription, status, maxCalls) ==
    /\ Begin(p, "updateTask", maxCalls)
    /\ loc' = [loc EXCEPT ![p] = [LocInit EXCEPT !.op = "updateTask", !.id = id,
                                                 !.title = newTitle,
                                                 !.desc = newDescription,
                                                 !.status = status,
                                                 !.start = clock]]
    /\ pc' = [pc EXCEPT ![p] = "rg_lock"]
    /\ UNCHANGED <<tasks, mu, heap, clock>>

\* mutant of Supplied: an empty new value overwrites too
SuppliedAlways(s) == TRUE

\* newTitle != "" (and the same test for the description)
Supplied(s) == Len(s) > 0

\* usecase.go 121-131: no lock is held; existingTask is the stored object.
UcUpdateTitle(p) ==
    /\ pc[p] = "uu_title"
    /\ LET e == CheckTaskTitle(loc[p].title) IN
       IF Supplied(loc[p].title) /\ e # NilErr
       THEN /\ loc' = [loc EXCEPT ![p] = Returned([@ EXCEPT !.err = e])]
            /\ pc' = [pc EXCEPT ![p] = "done"]
            /\ UNCHANGED heap
       ELSE /\ heap' = IF Supplied(loc[p].title)
                       THEN [heap EXCEPT ![loc[p].task].Title = loc[p].title]
                       ELSE heap
            /\ pc' = [pc EXCEPT ![p] = "uu_desc"]
            /\ UNCHANGED loc
    /\ UNCHANGED <<tasks, mu, clock, calls>>

\* usecase.go 133-143
UcUpdateDescription(p) ==
    /\ pc[p] = "uu_desc"
    /\ LET e == CheckTaskDescription(loc[p].desc) IN
       IF Supplied(loc[p].desc) /\ e # NilErr
       THEN /\ loc' = [loc EXCEPT ![p] = Returned([@ EXCEPT !.err = e])]
            /\ pc' = [pc EXCEPT ![p] = "done"]
            /\ UNCHANGED heap
       ELSE /\ heap' = IF Supplied(loc[p].desc)
                       THEN [heap EXCEPT ![loc[p].task].Description = loc[p].desc]
                       ELSE heap
            /\ pc' = [pc EXCEPT ![p] = "uu_status"]
            /\ UNCHANGED loc
    /\ UNCHANGED <<tasks, mu, clock, calls>>

\* mutant of StatusSupplied: only the three statuses of models.go are taken
StatusSuppliedKnown(status) ==
    status \in {StatusPending, StatusInProgress, StatusCompleted}

\* status != ""
StatusSupplied(status) == status # ""

\* usecase.go 145-147
UcUpdateStatus(p) ==
    /\ pc[p] = "uu_status"
    /\ heap' = IF StatusSupplied(loc[p].status)
               THEN [heap EXCEPT ![loc[p].task].Status = loc[p].status]
               ELSE heap
    /\ pc' = [pc EXCEPT ![p] = "uu_now"]
    /\ UNCHANGED <<tasks, mu, clock, loc, calls>>

\* usecase.go 149, right-hand side: the call of time.Now()
UcUpdateNow(p) ==
    /\ pc[p] = "uu_now"
    /\ loc' = [loc EXCEPT ![p].now = clock]
    /\ pc' = [pc EXCEPT ![p] = "uu_stamp"]
    /\ UNCHANGED <<tasks, mu, heap, clock, calls>>

\* usecase.go 149, the store into existingTask.UpdatedAt
UcUpdateStamp(p) ==
    /\ pc[p] = "uu_stamp"
    /\ heap' = [heap EXCEPT ![loc[p].task] = StampUpdated(@, loc[p].now)]
    /\ pc' = [pc EXCEPT ![p] = "ru_lock"]
    /\ UNCHANGED <<tasks, mu, clock, loc, calls>>

\* ------------------------------------------------- Repository.UpdateTask
\* repository.go 263-271, 286-288: a caller of the store itself,
\* repo.UpdateTask(ctx, &models.Task{ID: id, Title: ..., Status: ...}).
StoreUpdateTask(p, id, title, status, maxCalls) ==
    /\ Begin(p, "Store.UpdateTask", maxCalls)
    /\ heap' = Append(heap, [ID |-> id, Title |-> title, Description |-> <<>>,
                             Status |-> status, CreatedAt |-> ZeroTime,
                             UpdatedAt |-> ZeroTime])
    /\ loc' = [loc EXCEPT ![p] = [LocInit EXCEPT !.op = "Store.UpdateTask",
                                                 !.id = id, !.title = title,
                                                 !.status = status,
                                                 !.start = clock,
                                                 !.task = Len(heap) + 1]]
    /\ pc' = [pc EXCEPT ![p] = "ru_lock"]
    /\ UNCHANGED <<tasks, mu, clock>>

\* repository.go 100-110: Lock and the lookup of task.ID.
RepoUpdateLock(p) ==
    /\ pc[p] = "ru_lock"
    /\ CanLock
    /\ mu' = Lock(mu, p)
    /\ LET o == UpdateFind(tasks, heap[loc[p].task].ID) IN
         /\ loc' = [loc EXCEPT ![p].err = o.err, ![p].ex = o.ex]
         /\ pc' = [pc EXCEPT ![p] = IF o.err # NilErr THEN "ru_unlock"
                                                       ELSE "ru_ldTitle"]
    /\ UNCHANGED <<tasks, heap, clock, calls>>

\* repository.go 112-114: each assignment loads a field of task and stores
\* it into existingTask.
RepoUpdateLoad(p, at, field, to) ==
    /\ pc[p] = at
    /\ loc' = IF field = "Status"
              THEN [loc EXCEPT ![p].streg = heap[loc[p].task].Status]
              ELSE [loc EXCEPT ![p].sreg = heap[loc[p].task][field]]
    /\ pc' = [pc EXCEPT ![p] = to]
    /\ UNCHANGED <<tasks, mu, heap, clock, calls>>

RepoUpdateStore(p, at, field, to) ==
    /\ pc[p] = at
    /\ heap' = IF field = "Status"
               THEN [heap EXCEPT ![loc[p].ex].Status = loc[p].streg]
               ELSE [heap EXCEPT ![loc[p].ex][field] = loc[p].sreg]
    /\ pc' = [pc EXCEPT ![p] = to]
    /\ UNCHANGED <<tasks, mu, clock, loc, calls>>

RepoUpdateFields(p) ==
    \/ RepoUpdateLoad(p, "ru_ldTitle", "Title", "ru_stTitle")
    \/ RepoUpdateStore(p, "ru_stTitle", "Title", "ru_ldDesc")
    \/ RepoUpdateLoad(p, "ru_ldDesc", "Description", "ru_stDesc")
    \/ RepoUpdateStore(p, "ru_stDesc", "Description", "ru_ldStatus")
    \/ RepoUpdateLoad(p, "ru_ldStatus", "Status", "ru_stStatus")
    \/ RepoUpdateStore(p, "ru_stStatus", "Status", "ru_now")

\* repository.go 115, right-hand side: the call of time.Now()
RepoUpdateNow(p) ==
    /\ pc[p] = "ru_now"
    /\ loc' = [loc EXCEPT ![p].now = clock]
    /\ pc' = [pc EXCEPT ![p] = "ru_stamp"]
    /\ UNCHANGED <<tasks, mu, heap, clock, calls>>

\* repository.go 115, the store into existingTask.UpdatedAt; 122
RepoUpdateStamp(p) ==
    /\ pc[p] = "ru_stamp"
    /\ heap' = [heap EXCEPT ![loc[p].ex] = StampUpdated(@, loc[p].now)]
    /\ loc' = [loc EXCEPT ![p].ret = loc[p].ex]
    /\ pc' = [pc EXCEPT ![p] = "ru_unlock"]
    /\ UNCHANGED <<tasks, mu, clock, calls>>

\* repository.go 101 (deferred Unlock) and the return through the usecase.
RepoUpdateUnlock(p) ==
    /\ pc[p] = "ru_unlock"
    /\ mu' = Unlock(mu)
    /\ pc' = [pc EXCEPT ![p] = "done"]
    /\ loc' = [loc EXCEPT ![p] = Returned(@)]
    /\ UNCHANGED <<tasks, heap, clock, calls>>

\* ------------------------------------------------- delivery: parsing
\* the digits of a decimal string, most significant first
DigitsOf(s) == [i \in 1..Len(s) |-> s[i] - 48]

AllDigits(s) == \A i \in 1..Len(s) : s[i] >= 48 /\ s[i] <= 57

RECURSIVE StripZeros(_)
StripZeros(d) == IF Len(d) > 1 /\ d[1] = 0 THEN StripZeros(Tail(d)) ELSE d

\* a <= b for two digit sequences of the same length
RECURSIVE DigitsLeq(_, _)
DigitsLeq(a, b) ==
    IF a = <<>> THEN TRUE
    ELSE IF a[1] # b[1] THEN a[1] < b[1]
    ELSE DigitsLeq(Tail(a), Tail(b))

\* 1<<63 - 1 for a string without '-', 1<<63 for a string with '-'
Int64Limit(neg) == <<9, 2, 2, 3, 3, 7, 2, 0, 3, 6, 8, 5, 4, 7, 7, 5, 8, 0, 7 + (IF neg THEN 1 ELSE 0)>>

InInt64(d, neg) ==
    LET n == StripZeros(d) IN
    \/ Len(n) < Len(Int64Limit(neg))
    \/ Len(n) = Len(Int64Limit(neg)) /\ DigitsLeq(n, Int64Limit(neg))

RECURSIVE DecValue(_)
DecValue(d) == IF d = <<>> THEN 0 ELSE DecValue(SubSeq(d, 1, Len(d) - 1)) * 10 + d[Len(d)]

\* mutant of ParseInt: a string that is no int64 is taken for 0
ParseIntLenient(s) ==
    LET neg  == s # <<>> /\ s[1] = 45
        body == IF s # <<>> /\ s[1] \in {43, 45} THEN Tail(s) ELSE s
    IN IF body = <<>> \/ ~AllDigits(body) \/ ~InInt64(DigitsOf(body), neg)
       THEN [err |-> FALSE, val |-> 0]
       ELSE [err |-> FALSE,
             val |-> IF neg THEN 0 - DecValue(StripZeros(DigitsOf(body)))
                            ELSE DecValue(StripZeros(DigitsOf(body)))]

\* strconv.ParseInt(s, 10, 64): an optional sign, then one or more decimal
\* digits, the value within the range of int64
ParseInt(s) ==
    LET neg  == s # <<>> /\ s[1] = 45                       \* '-'
        body == IF s # <<>> /\ s[1] \in {43, 45} THEN Tail(s) ELSE s
    IN IF body = <<>> \/ ~AllDigits(body) \/ ~InInt64(DigitsOf(body), neg)
       THEN [err |-> TRUE, val |-> 0]
       ELSE [err |-> FALSE,
             val |-> IF neg THEN 0 - DecValue(StripZeros(DigitsOf(body)))
                            ELSE DecValue(StripZeros(DigitsOf(body)))]

\* one field of a request struct: a JSON string is stored, null and an
\* absent key leave the zero value, any other JSON value is a type error
JsonString(v)  == [t |-> "string", s |-> v]
JsonNumber     == [t |-> "number", s |-> <<>>]
JsonNull       == [t |-> "null", s |-> <<>>]
FieldFails(f)  == f.t \notin {"absent", "null", "string"}
FieldValue(f, zero) == IF f.t = "string" THEN f.s ELSE zero

\* the JSON keys of the fields of the two request structs
CreateTaskRequest == {"title", "description"}
UpdateTaskRequest == {"title", "description", "status"}

\* json.NewDecoder(r.Body).Decode(&req), req a struct with the keys of
\* fields: fails on a text that is no JSON (the empty body included), on a
\* JSON value that is neither null nor an object, and on an object with a
\* field of the wrong type; null leaves req as it is.  A key that is no
\* field of the struct is skipped, whatever its value.
Decode(b, fields) ==
    IF b.kind = "null"
    THEN [err |-> FALSE, Title |-> <<>>, Description |-> <<>>, Status |-> ""]
    ELSE IF b.kind # "object"
    THEN [err |-> TRUE, Title |-> <<>>, Description |-> <<>>, Status |-> ""]
    ELSE [err |-> \E f \in fields : FieldFails(b[f]),
          Title |-> FieldValue(b.title, <<>>),
          Description |-> FieldValue(b.description, <<>>),
          Status |-> IF "status" \in fields THEN FieldValue(b.status, "")
                     ELSE ""]

\* ------------------------------------------------- delivery: responses
\* err.Error()
ErrorText(err) == IF err.msg = "" THEN err.is ELSE err.is \o ": " \o err.msg

\* mutant of respondWithError: the case of ErrValidation is missing
respondWithErrorNoValidation(err) ==
    IF ErrorsIs(err, ErrTaskNotFound) THEN [code |-> 404, msg |-> ErrorText(err)]
    ELSE IF ErrorsIs(err, ErrInvalidID) THEN [code |-> 400, msg |-> ErrorText(err)]
    ELSE [code |-> 500, msg |-> "internal server error"]

\* delivery.go 168-180; msg is the text handed to http.Error
respondWithError(err) ==
    IF ErrorsIs(err, ErrTaskNotFound) THEN [code |-> 404, msg |-> ErrorText(err)]
    ELSE IF ErrorsIs(err, ErrInvalidID) THEN [code |-> 400, msg |-> ErrorText(err)]
    ELSE IF ErrorsIs(err, ErrValidation) THEN [code |-> 400, msg |-> ErrorText(err)]
    ELSE [code |-> 500, msg |-> "internal server error"]

\* the status of a handler whose call of the usecase succeeded:
\* WriteHeader(StatusCreated), WriteHeader(StatusNoContent), or the 200
\* of a first Write without WriteHeader; the JSON body is left out
SuccessStatus(op) ==
    IF op = "createTask" THEN 201
    ELSE IF op = "deleteTask" THEN 204
    ELSE 200

\* the usecase method a handler calls
UsecaseOp(handler) ==
    CASE handler = "Delivery.CreateTask" -> "createTask"
      [] handler = "Delivery.GetTask"    -> "getTask"
      [] handler = "Delivery.ListTasks"  -> "listTasks"
      [] handler = "Delivery.UpdateTask" -> "updateTask"
      [] handler = "Delivery.DeleteTask" -> "deleteTask"

\* ------------------------------------------------- delivery: handlers
\* a request reaches its handler: path is r.PathValue("id"), query is
\* r.URL.Query().Get("status"), body is r.Body
DlvReceive(p, handler, path, query, body, maxCalls) ==
    /\ pc[p] \in {"idle", "responded"}
    /\ calls < maxCalls
    /\ calls' = calls + 1
    /\ loc' = [loc EXCEPT ![p] = [LocInit EXCEPT !.op = handler, !.path = path,
                                                 !.status = query, !.body = body,
                                                 !.start = clock]]
    /\ pc' = [pc EXCEPT ![p] = "dv_call"]
    /\ UNCHANGED <<tasks, mu, heap, clock>>

\* http.Error(w, msg, http.StatusBadRequest); return
BadRequest(p, msg) ==
    /\ loc' = [loc EXCEPT ![p].resp = [code |-> 400, msg |-> msg]]
    /\ pc' = [pc EXCEPT ![p] = "responded"]
    /\ UNCHANGED <<tasks, mu, heap, clock, calls>>

\* is the request one that the handler hands to the usecase?
Parses(l) ==
    /\ l.op \in {"Delivery.GetTask", "Delivery.UpdateTask", "Delivery.DeleteTask"}
         => ~ParseInt(l.path).err
    /\ l.op = "Delivery.CreateTask" => ~Decode(l.body, CreateTaskRequest).err
    /\ l.op = "Delivery.UpdateTask" => ~Decode(l.body, UpdateTaskRequest).err

\* delivery.go 28-37
DlvCreateTask(p) ==
    /\ pc[p] = "dv_call" /\ loc[p].op = "Delivery.CreateTask"
    /\ LET req == Decode(loc[p].body, CreateTaskRequest) IN
       IF req.err THEN BadRequest(p, "invalid request body")
       ELSE UcCreateTask(p, req.Title, req.Description, 0)

\* delivery.go 60-71
DlvGetTask(p) ==
    /\ pc[p] = "dv_call" /\ loc[p].op = "Delivery.GetTask"
    /\ LET id == ParseInt(loc[p].path) IN
       IF id.err THEN BadRequest(p, "invalid task ID")
       ELSE UcGetTask(p, id.val, 0)

\* delivery.go 88-90
DlvListTasks(p) ==
    /\ pc[p] = "dv_call" /\ loc[p].op = "Delivery.ListTasks"
    /\ UcListTasks(p, loc[p].status, 0)

\* delivery.go 107-128: the ID first, then the body
DlvUpdateTask(p) ==
    /\ pc[p] = "dv_call" /\ loc[p].op = "Delivery.UpdateTask"
    /\ LET id  == ParseInt(loc[p].path)
           req == Decode(loc[p].body, UpdateTaskRequest)
       IN IF id.err THEN BadRequest(p, "invalid task ID")
          ELSE IF req.err THEN BadRequest(p, "invalid request body")
          ELSE UcUpdateTask(p, id.val, req.Title, req.Description, req.Status, 0)

\* delivery.go 145-156
DlvDeleteTask(p) ==
    /\ pc[p] = "dv_call" /\ loc[p].op = "Delivery.DeleteTask"
    /\ LET id == ParseInt(loc[p].path) IN
       IF id.err THEN BadRequest(p, "invalid task ID")
       ELSE UcDeleteTask(p, id.val, 0)

\* the handler's taskUsecase is an app.TaskUsecase: with the mock of the
\* delivery tests the call returns the error the test has chosen
DlvCallMock(p, err) ==
    /\ pc[p] = "dv_call"
    /\ Parses(loc[p])
    /\ loc' = [loc EXCEPT ![p] = [LocInit EXCEPT !.op = UsecaseOp(loc[p].op),
                                                 !.err = err, !.start = clock]]
    /\ pc' = [pc EXCEPT ![p] = "done"]
    /\ UNCHANGED <<tasks, mu, heap, clock, calls>>

\* the call of the usecase has returned: respondWithError, or the
\* response of the success
DlvRespond(p) ==
    /\ pc[p] = "done"
    /\ loc' = [loc EXCEPT ![p].resp =
                 IF loc[p].err # NilErr THEN respondWithError(loc[p].err)
                 ELSE [code |-> SuccessStatus(loc[p].op), msg |-> ""]]
    /\ pc' = [pc EXCEPT ![p] = "responded"]
    /\ UNCHANGED <<tasks, mu, heap, clock, calls>>

DlvSteps(p) ==
    \/ DlvCreateTask(p)
    \/ DlvGetTask(p)
    \/ DlvListTasks(p)
    \/ DlvUpdateTask(p)
    \/ DlvDeleteTask(p)
    \/ DlvRespond(p)

\* ------------------------------------------------- main
\* main is goroutine 1, the goroutine of part_000 59-66 is goroutine 2.
\* The channels serverErr and quit (both of capacity 1) are locals of
\* main, as are the facts that signal.Notify has run and that
\* server.Shutdown was called; logged collects the messages of the logger.
MainG == 1
SrvG  == 2

ErrServerClosed == [is |-> "http: Server closed", msg |-> ""]
ErrListen       == [is |-> "listen tcp: address already in use", msg |-> ""]

Log(l, message) == [l EXCEPT !.logged = @ \cup {message}]

Alive == pc[MainG] \notin {"exited", "killed"}

\* part_000 57-66: make(chan error, 1); go func() { ... }()
MainGo ==
    /\ pc[MainG] = "idle"
    /\ pc' = [pc EXCEPT ![MainG] = "m_notify", ![SrvG] = "srv_listen"]
    /\ loc' = [loc EXCEPT ![MainG] = [LocInit EXCEPT !.op = "main"],
                          ![SrvG] = [LocInit EXCEPT !.op = "ListenAndServe"]]
    /\ UNCHANGED <<tasks, mu, heap, clock, calls>>

\* part_000 68-69: make(chan os.Signal, 1); signal.Notify
MainNotify ==
    /\ pc[MainG] = "m_notify"
    /\ loc' = [loc EXCEPT ![MainG].notify = TRUE]
    /\ pc' = [pc EXCEPT ![MainG] = "m_select"]
    /\ UNCHANGED <<tasks, mu, heap, clock, calls>>

\* SIGINT or SIGTERM reaches the process: before signal.Notify it ends
\* the process; after it the signal is sent to quit without blocking, so
\* it is dropped when quit is full.
Signal(sig) ==
    /\ Alive
    /\ calls < MaxSignals
    /\ calls' = calls + 1
    /\ IF loc[MainG].notify
       THEN /\ loc' = [loc EXCEPT ![MainG].quit =
                         IF Len(@) < 1 THEN Append(@, sig) ELSE @]
            /\ UNCHANGED pc
       ELSE /\ pc' = [pc EXCEPT ![MainG] = "killed", ![SrvG] = "killed"]
            /\ UNCHANGED loc
    /\ UNCHANGED <<tasks, mu, heap, clock>>

\* part_000 63: ListenAndServe has bound the port and serves
SrvListen ==
    /\ Alive
    /\ pc[SrvG] = "srv_listen"
    /\ ~loc[MainG].shutdown
    /\ pc' = [pc EXCEPT ![SrvG] = "srv_serving"]
    /\ UNCHANGED <<tasks, mu, heap, clock, loc, calls>>

\* part_000 63-65: ListenAndServe returns.  After Shutdown the error is
\* ErrServerClosed and nothing is logged; any other error (the port
\* cannot be bound, Accept fails) is logged, and the goroutine ends.
SrvReturn(err) ==
    /\ Alive
    /\ pc[SrvG] \in {"srv_listen", "srv_serving"}
    /\ err = ErrServerClosed <=> loc[MainG].shutdown
    /\ loc' = [loc EXCEPT ![SrvG].err = err,
                          ![MainG] = IF err # NilErr /\ err # ErrServerClosed
                                     THEN Log(@, "server error") ELSE @]
    /\ pc' = [pc EXCEPT ![SrvG] = "srv_done"]
    /\ UNCHANGED <<tasks, mu, heap, clock, calls>>

\* part_000 71-78: the select takes a case whose channel holds a value.
\* case err := <-serverErr: log, os.Exit(1).
\* case sig := <-quit: log, go on to the shutdown.
MainSelect ==
    /\ pc[MainG] = "m_select"
    /\ \E branch \in {"serverErr", "quit"} :
         /\ Len(loc[MainG][branch]) > 0
         /\ IF branch = "serverErr"
            THEN /\ loc' = [loc EXCEPT ![MainG] =
                              [Log(@, "failed to start server")
                                 EXCEPT !.serverErr = Tail(@), !.exit = 1]]
                 /\ pc' = [pc EXCEPT ![MainG] = "exited", ![SrvG] = "killed"]
            ELSE /\ loc' = [loc EXCEPT ![MainG] =
                              [Log(@, "server is shutting down")
                                 EXCEPT !.quit = Tail(@)]]
                 /\ pc' = [pc EXCEPT ![MainG] = "m_shutdown"]
    /\ UNCHANGED <<tasks, mu, heap, clock, calls>>

\* part_000 80-85: server.Shutdown(ctx) is called; ListenAndServe will
\* return ErrServerClosed
MainShutdown ==
    /\ pc[MainG] = "m_shutdown"
    /\ loc' = [loc EXCEPT ![MainG].shutdown = TRUE]
    /\ pc' = [pc EXCEPT ![MainG] = "m_stopped"]
    /\ UNCHANGED <<tasks, mu, heap, clock, calls>>

\* part_000 83-90: Shutdown returns nil (main logs and returns) or, when
\* the 30 seconds are over with connections open, an error (main logs and
\* calls os.Exit(1)); either way the process ends.
MainStopped(failed) ==
    /\ pc[MainG] = "m_stopped"
    /\ loc' = [loc EXCEPT ![MainG] =
                 IF failed
                 THEN [Log(@, "server shutdown error") EXCEPT !.exit = 1]
                 ELSE Log(@, "server stopped")]
    /\ pc' = [pc EXCEPT ![MainG] = "exited", ![SrvG] = "killed"]
    /\ UNCHANGED <<tasks, mu, heap, clock, calls>>

MainSteps ==
    \/ MainGo
    \/ MainNotify
    \/ MainSelect
    \/ MainShutdown
    \/ \E failed \in BOOLEAN : MainStopped(failed)

SrvSteps ==
    \/ SrvListen
    \/ \E err \in {ErrListen, ErrServerClosed} : SrvReturn(err)

\* the steps of the server goroutine that are bound to happen: the start
\* of ListenAndServe ends by serving or by an error, and after Shutdown
\* ListenAndServe returns.  A server that serves may serve for ever.
SrvProgress ==
    /\ pc[SrvG] = "srv_listen" \/ loc[MainG].shutdown
    /\ SrvSteps

\* ------------------------------------------------- specifications
\* "abc", "xyz", "d"
TitleAbc == <<97, 98, 99>>
TitleXyz == <<120, 121, 122>>
DescD    == <<100>>

\* the steps of Repository.CreateTask after the call
CreateSteps(p) ==
    \/ RepoCreateLock(p)
    \/ RepoCreateUnlock(p)

\* the steps of Repository.UpdateTask after the call
UpdateSteps(p) ==
    \/ RepoUpdateLock(p)
    \/ RepoUpdateFields(p)
    \/ RepoUpdateNow(p)
    \/ RepoUpdateStamp(p)
    \/ RepoUpdateUnlock(p)

\* the steps of Repository.GetAllTasks after the call
ListSteps(p) ==
    \/ RepoListLock(p)
    \/ RepoListIter(p)
    \/ RepoListUnlock(p)

\* every step of a call after its first
Steps(p) ==
    \/ CreateSteps(p)
    \/ RepoGetLock(p)
    \/ RepoGetUnlock(p)
    \/ ListSteps(p)
    \/ RepoDeleteLock(p)
    \/ RepoDeleteUnlock(p)
    \/ UcUpdateTitle(p)
    \/ UcUpdateDescription(p)
    \/ UcUpdateStatus(p)
    \/ UcUpdateNow(p)
    \/ UcUpdateStamp(p)
    \/ RepoUpdateLock(p)
    \/ RepoUpdateFields(p)
    \/ RepoUpdateNow(p)
    \/ RepoUpdateStamp(p)
    \/ RepoUpdateUnlock(p)

\* the calls of the usecase, with their inputs drawn from `in'
Calls(p, in) ==
    \/ \E c \in in.creates : UcCreateTask(p, c[1], c[2], in.max)
    \/ \E id \in in.ids : UcGetTask(p, id, in.max)
    \/ \E s \in in.filters : UcListTasks(p, s, in.max)
    \/ \E id \in in.ids, u \in in.updates : UcUpdateTask(p, id, u[1], u[2], u[3], in.max)
    \/ \E id \in in.ids : UcDeleteTask(p, id, in.max)

\* Spec: two goroutines call the usecase concurrently.  Inputs: the ID of
\* the first millisecond, a valid title, updates of one field each.
ConcIn == [ids     |-> {0},
           creates |-> {<<TitleAbc, <<>>>>},
           filters |-> {""},
           ticks   |-> {Millisecond},
           updates |-> {<<TitleXyz, <<>>, "">>, <<<<>>, <<>>, StatusCompleted>>},
           max     |-> MaxCalls]

Next ==
    \/ Tick(ConcIn.ticks)
    \/ \E p \in Procs : Calls(p, ConcIn) \/ Steps(p)

Spec == Init /\ [][Next]_vars

\* SpecSeq: one caller, one call at a time.  Inputs: tasks with and
\* without a description, updates of the title or of the status, the
\* filters "" and "pending".
SeqIn == [ids     |-> {0},
          creates |-> {<<TitleAbc, <<>>>>, <<TitleAbc, DescD>>},
          filters |-> {"", StatusPending},
          ticks   |-> {Millisecond},
          updates |-> {<<TitleXyz, <<>>, "">>, <<<<>>, <<>>, StatusCompleted>>},
          max     |-> MaxCallsSeq]

NextSeq ==
    \/ Tick(SeqIn.ticks)
    \/ \E p \in SeqProcs :
         \/ (\A q \in AllProcs : Idle(q)) /\ Calls(p, SeqIn)
         \/ Steps(p)

SpecSeq == Init /\ [][NextSeq]_vars

\* SpecVal: one caller creates tasks whose titles and descriptions lie at
\* the limits of the validation.
TitleInputs ==
    { <<>>,                                  \* ""
      <<97, 98>>,                            \* "ab"
      TitleAbc,                              \* "abc"
      <<1040, 32, 57>>,                      \* "А 9"
      <<46, 33, 45>>,                        \* ".!-"
      <<97, 64, 99>>,                        \* "a@c"
      <<97, 1025, 99>>,                      \* "aЁc"
      <<97, 11, 99>>,                        \* "a\vc"
      Repeat(97, MaxTaskTitleLength),
      Repeat(97, MaxTaskTitleLength + 1) }

DescInputs ==
    { <<>>, DescD,
      Repeat(100, MaxTaskDescriptionLength),
      Repeat(100, MaxTaskDescriptionLength + 1) }

ValCreates == {<<t, <<>>>> : t \in TitleInputs}
                \cup {<<TitleAbc, d>> : d \in DescInputs}
                \cup {<<<<97, 98>>, Repeat(100, MaxTaskDescriptionLength + 1)>>}

NextVal ==
    \/ Tick({Millisecond})
    \/ \E p \in SeqProcs :
         \/ \E c \in ValCreates :
              (\A q \in AllProcs : Idle(q)) /\ UcCreateTask(p, c[1], c[2], MaxCallsVal)
         \/ CreateSteps(p)

SpecVal == Init /\ [][NextVal]_vars

\* SpecStore: TestConcurrentAccess.  NumCallers goroutines call the
\* store's CreateTask once each; when all have returned, the main
\* goroutine calls GetAllTasks.  The goroutines are interchangeable, so
\* they are started in the order of their numbers.
\* Goroutine p creates the ID p - 1 (as the test does, IDs pairwise
\* distinct) or the ID 0 of the first goroutine (a collision).
MainProc == NumCallers + 1
StoreIds(p) == {p - 1, 0}

NextStore ==
    \/ Tick({Millisecond})
    \/ \E p \in StoreProcs :
         \/ \E id \in StoreIds(p) :
              /\ pc[p] = "idle"
              /\ \A q \in StoreProcs : q < p => pc[q] # "idle"
              /\ StoreCreateTask(p, id, NumCallers)
         \/ CreateSteps(p)
    \/ /\ \A p \in StoreProcs : pc[p] = "done"
       /\ pc[MainProc] = "idle"
       /\ UcListTasks(MainProc, "", NumCallers + 1)
    \/ ListSteps(MainProc)

SpecStore == Init /\ [][NextStore]_vars

\* SpecLive: two goroutines call the usecase concurrently and the
\* scheduler is fair: a goroutine whose next step stays possible takes it.
\* The clock stands still; the number of calls is finite.
LiveIn == [ids     |-> {0},
           creates |-> {<<TitleAbc, <<>>>>},
           filters |-> {""},
           ticks   |-> {},
           updates |-> {<<<<>>, <<>>, StatusCompleted>>},
           max     |-> MaxCallsLive]

NextLive == \E p \in Procs : Calls(p, LiveIn) \/ Steps(p)

SpecLive == Init /\ [][NextLive]_vars /\ \A p \in Procs : WF_vars(Steps(p))

\* SpecMain: the process from the start of main to its end.  The
\* goroutines are scheduled fairly; whether and when a signal arrives is
\* up to the environment, as is whether a serving server ever fails.
NextMain ==
    \/ MainSteps
    \/ SrvSteps
    \/ \E sig \in {"SIGINT", "SIGTERM"} : Signal(sig)

SpecMain == Init /\ [][NextMain]_vars /\ WF_vars(MainSteps) /\ WF_vars(SrvProgress)

\* SpecUpd: one caller, one call at a time; the updates carry a status
\* that is none of the three of models.go, a title that is too short, and
\* a valid title together with a description that is too long.
StatusBogus == "bogus"
UpdIn == [ids     |-> {0},
          creates |-> {<<TitleAbc, <<>>>>},
          filters |-> {StatusBogus},
          ticks   |-> {Millisecond},
          updates |-> {<<<<>>, <<>>, StatusBogus>>,
                       <<<<>>, <<>>, StatusPending>>,
                       <<<<97, 98>>, <<>>, StatusCompleted>>,
                       <<TitleXyz, Repeat(100, MaxTaskDescriptionLength + 1), "">>},
          max     |-> MaxCallsUpd]

NextUpd ==
    \/ Tick(UpdIn.ticks)
    \/ \E p \in SeqProcs :
         \/ (\A q \in AllProcs : Idle(q)) /\ Calls(p, UpdIn)
         \/ Steps(p)

SpecUpd == Init /\ [][NextUpd]_vars

\* SpecRepo: one caller of the store itself, one call at a time, as in the
\* tests of the repository: creates with a negative, a new or a stored
\* ID, updates of stored and of missing IDs, deletes.
RepoIds     == {0 - 1, 0, 1}
RepoUpdates == {<<TitleXyz, "">>, <<<<>>, StatusCompleted>>}

NextRepo ==
    \/ Tick({Millisecond})
    \/ \E p \in SeqProcs :
         \/ /\ \A q \in AllProcs : Idle(q)
            /\ \/ \E id \in RepoIds : StoreCreateTask(p, id, MaxCallsRepo)
               \/ \E id \in {0, 1}, u \in RepoUpdates :
                       StoreUpdateTask(p, id, u[1], u[2], MaxCallsRepo)
               \/ UcDeleteTask(p, 0, MaxCallsRepo)
         \/ CreateSteps(p)
         \/ UpdateSteps(p)
         \/ RepoDeleteLock(p)
         \/ RepoDeleteUnlock(p)

SpecRepo == Init /\ [][NextRepo]_vars

\* SpecHttp: one client, one request at a time, through the handlers of
\* the delivery layer.  The handlers call the usecase, or a mock of it
\* that fails with an error of the test's choice.
PathZero     == <<48>>                                 \* "0"
PathPlusZero == <<43, 48>>                             \* "+0"
PathMinusOne == <<45, 49>>                             \* "-1"
PathWord     == <<105, 110, 118, 97, 108, 105, 100>>   \* "invalid"
PathMixed    == <<49, 97>>                             \* "1a"
PathTooBig   == <<57, 50, 50, 51, 51, 55, 50, 48, 51, 54,
                  56, 53, 52, 55, 55, 53, 56, 48, 56>> \* "9223372036854775808"

Object(title, description, status) ==
    [kind |-> "object", title |-> title, description |-> description,
     status |-> status]

BodyNull    == [NoBody EXCEPT !.kind = "null"]           \* null
BodyString  == [NoBody EXCEPT !.kind = "string"]         \* "invalid"
BodyAbc     == Object(JsonString(TitleAbc), JsonAbsent, JsonNull)
BodyShort   == Object(JsonString(<<97, 98>>), JsonAbsent, JsonAbsent)
BodyNumber  == Object(JsonNumber, JsonAbsent, JsonAbsent)
BodyDone    == Object(JsonAbsent, JsonAbsent, JsonString(StatusCompleted))
BodyStatus5 == Object(JsonString(TitleAbc), JsonAbsent, JsonNumber)

HttpPaths  == {PathZero, PathPlusZero, PathMinusOne, PathWord, PathMixed,
               PathTooBig, <<>>}
HttpBodies == {NoBody, BodyNull, BodyString, BodyAbc, BodyShort, BodyNumber,
               BodyDone, BodyStatus5}

HttpRequests ==
    {<<"Delivery.CreateTask", <<>>, "", b>> : b \in HttpBodies}
    \cup {<<h, path, "", NoBody>> :
             h \in {"Delivery.GetTask", "Delivery.DeleteTask"}, path \in HttpPaths}
    \cup {<<"Delivery.ListTasks", <<>>, f, NoBody>> : f \in {"", StatusCompleted}}
    \cup {<<"Delivery.UpdateTask", path, "", b>> :
             path \in HttpPaths, b \in HttpBodies}

MockErrors == {ErrInvalidID, ErrValidation, [is |-> "internal error", msg |-> ""]}

NextHttp ==
    \/ Tick({Millisecond})
    \/ \E p \in SeqProcs :
         \/ \E r \in HttpRequests :
              DlvReceive(p, r[1], r[2], r[3], r[4], MaxCallsHttp)
         \/ DlvSteps(p)
         \/ \E e \in MockErrors : DlvCallMock(p, e)
         \/ Steps(p)

SpecHttp == Init /\ [][NextHttp]_vars

\* ------------------------------------------------------------- claims
Stored == {tasks[k] : k \in DOMAIN tasks}

\* C1: a createTask call with a valid title and description succeeds, and
\* when the store's create has run (the write lock is still held) the
\* returned task has status pending, created_at = updated_at, and is the
\* task stored under its ID.
C1_CreatedPending ==
    \A p \in AllProcs :
        /\ loc[p].op = "createTask"
        /\ pc[p] \in {"rc_unlock", "done"}
        /\ CheckTaskTitle(loc[p].title) = NilErr
        /\ CheckTaskDescription(loc[p].desc) = NilErr
        => /\ loc[p].err = NilErr
           /\ loc[p].ret \in 1..Len(heap)
           /\ pc[p] = "rc_unlock" =>
                LET t == heap[loc[p].ret] IN
                /\ t.Status = "pending"
                /\ t.CreatedAt = t.UpdatedAt
                /\ t.ID \in DOMAIN tasks
                /\ tasks[t.ID] = loc[p].ret

C1_Witness ==
    \E p \in AllProcs :
        /\ loc[p].op = "createTask"
        /\ pc[p] = "rc_unlock"
        /\ loc[p].err = NilErr
        /\ clock > 0

\* C2: the ID createTask assigns is the key of no stored task, so every
\* successful createTask adds exactly one task to the store.
C2_FreshID ==
    [][\A p \in AllProcs :
         /\ loc[p].op = "createTask"
         /\ pc[p] = "rc_lock"
         /\ pc'[p] = "rc_unlock"
         /\ loc'[p].err = NilErr
         => /\ heap[loc[p].task].ID \notin DOMAIN tasks
            /\ Cardinality(DOMAIN tasks') = Cardinality(DOMAIN tasks) + 1]_vars

\* C3: the lookup of getTask(id) fails with NotFound exactly when no task
\* is stored under id, and otherwise yields the task stored under id; so
\* after a successful deleteTask(id) it fails until id is created again.
C3_GetFindsStored ==
    \A p \in AllProcs :
        /\ pc[p] = "rg_unlock" =>
             /\ loc[p].err = ErrTaskNotFound <=> loc[p].id \notin DOMAIN tasks
             /\ loc[p].err = NilErr <=> loc[p].id \in DOMAIN tasks
             /\ loc[p].id \in DOMAIN tasks => loc[p].task = tasks[loc[p].id]
        /\ pc[p] = "done" /\ loc[p].op = "getTask" =>
             \/ loc[p].err = NilErr /\ loc[p].ret \in 1..Len(heap)
             \/ loc[p].err = ErrTaskNotFound /\ loc[p].ret = 0

\* a getTask(id) fails after another caller's deleteTask(id) succeeded
C3_Witness ==
    \E p, q \in AllProcs :
        /\ pc[p] = "rg_unlock" /\ loc[p].op = "getTask"
        /\ loc[p].err = ErrTaskNotFound
        /\ pc[q] = "done" /\ loc[q].op = "deleteTask" /\ loc[q].err = NilErr
        /\ loc[q].id = loc[p].id

\* C4: deleteTask(id) on an ID that is not stored fails with NotFound and
\* leaves the set of stored IDs and every task's fields as they were.
C4_DeleteMissing ==
    [][\A p \in AllProcs :
         /\ pc[p] = "rd_lock"
         /\ pc'[p] = "rd_unlock"
         /\ loc[p].id \notin DOMAIN tasks
         => /\ loc'[p].err = ErrTaskNotFound
            /\ tasks' = tasks
            /\ heap' = heap]_vars

C4_Witness ==
    \E p \in AllProcs :
        /\ pc[p] = "rd_unlock"
        /\ loc[p].err = ErrTaskNotFound
        /\ tasks # <<>>

\* C5: listTasks("") returns every stored task exactly once, listTasks(s)
\* exactly the stored tasks whose status is s; it never fails and never
\* changes the store.
C5_ListExact ==
    [][\A p \in SeqProcs :
         loc[p].op = "listTasks" /\ pc[p] \in {"rl_lock", "rl_loop"}
         => /\ tasks' = tasks
            /\ heap' = heap
            /\ pc'[p] = "done" =>
                 LET l == loc'[p].list
                     f == loc'[p].status
                     want == IF f = "" THEN Stored
                             ELSE {t \in Stored : heap[t].Status = f}
                 IN /\ loc'[p].err = NilErr
                    /\ {l[i] : i \in 1..Len(l)} = want
                    /\ Len(l) = Cardinality(want)]_vars

\* listTasks("pending") left out one of two stored tasks
C5_Witness ==
    \E p \in SeqProcs :
        /\ pc[p] = "done" /\ loc[p].op = "listTasks"
        /\ loc[p].status = "pending"
        /\ Len(loc[p].list) = 1
        /\ Cardinality(DOMAIN tasks) = 2

C7_CreatedAtFixed ==
    [][\A o \in Stored : heap'[o].CreatedAt = heap[o].CreatedAt]_vars

\* an update has succeeded later than the task was created
C7_Witness ==
    \E p \in AllProcs :
        /\ pc[p] = "done" /\ loc[p].op = "updateTask" /\ loc[p].err = NilErr
        /\ loc[p].ret \in Stored
        /\ heap[loc[p].ret].UpdatedAt > heap[loc[p].ret].CreatedAt

\* C8: every stored task has updated_at >= created_at, and when a
\* successful updateTask returns, the task's updated_at is not earlier
\* than the time at which the call started.
C8_UpdatedAtNotBeforeStart ==
    [][/\ \A o \in {tasks'[k] : k \in DOMAIN tasks'} :
            heap'[o].UpdatedAt >= heap'[o].CreatedAt
       /\ \A p \in AllProcs :
            /\ loc[p].op = "updateTask"
            /\ pc[p] = "ru_unlock"
            /\ pc'[p] = "done"
            /\ loc'[p].err = NilErr
            => heap'[loc'[p].ret].UpdatedAt >= loc'[p].start]_vars

DistinctIds == \A p, q \in StoreProcs : p # q => loc[p].id # loc[q].id

\* C9: when the NumCallers concurrent creates of the store, with pairwise
\* distinct non-negative IDs, have all returned, all have succeeded, the
\* store holds one task per ID, and the list that follows returns them.
C9_NoLostInsert ==
    /\ \A p \in StoreProcs : pc[p] = "done" /\ loc[p].id >= 0
    /\ DistinctIds
    => /\ \A p \in StoreProcs : loc[p].err = NilErr
       /\ DOMAIN tasks = {loc[p].id : p \in StoreProcs}
       /\ Cardinality(DOMAIN tasks) = NumCallers
       /\ pc[MainProc] = "done" =>
            LET l == loc[MainProc].list IN
            /\ loc[MainProc].err = NilErr
            /\ Len(l) = NumCallers
            /\ {heap[l[i]].ID : i \in 1..Len(l)} = {loc[p].id : p \in StoreProcs}

C9_Witness ==
    /\ \A p \in StoreProcs : pc[p] = "done"
    /\ DistinctIds
    /\ pc[MainProc] = "done"
    /\ Len(loc[MainProc].list) = NumCallers

\* C10: createTask succeeds exactly when the title has 3 to 200 runes, all
\* of them allowed, and the description at most 5000 runes; otherwise it
\* fails with a Validation error without calling the store.
C10_AllowedRune(c) ==
    c \in (65..90) \cup (97..122) \cup (48..57) \cup (1040..1103)
          \cup {9, 10, 12, 13, 32} \cup {46, 44, 33, 63, 45}

C10_Valid(title, description) ==
    /\ Len(title) >= 3
    /\ Len(title) <= 200
    /\ \A i \in 1..Len(title) : C10_AllowedRune(title[i])
    /\ Len(description) <= 5000

C10_CreateValidates ==
    [][\A p \in SeqProcs :
         /\ Idle(p) /\ ~Idle(p)' /\ loc'[p].op = "createTask" =>
              /\ C10_Valid(loc'[p].title, loc'[p].desc)
              /\ pc'[p] = "rc_lock"
         /\ Idle(p) /\ pc'[p] = "done" /\ calls' # calls
              /\ loc'[p].op = "createTask" =>
              /\ ~C10_Valid(loc'[p].title, loc'[p].desc)
              /\ ErrorsIs(loc'[p].err, ErrValidation)
              /\ loc'[p].ret = 0
              /\ tasks' = tasks /\ heap' = heap /\ mu' = mu
         /\ pc[p] = "rc_unlock" /\ pc'[p] = "done"
              /\ loc[p].op = "createTask" =>
              /\ loc'[p].err = NilErr
              /\ tasks[heap[loc[p].ret].ID] = loc[p].ret]_vars

\* a 201-rune title is refused after a 200-rune title was stored
C10_Witness ==
    \E p \in SeqProcs :
        /\ pc[p] = "done" /\ loc[p].op = "createTask"
        /\ Len(loc[p].title) = 201
        /\ ErrorsIs(loc[p].err, ErrValidation)
        /\ \E k \in DOMAIN tasks : Len(heap[tasks[k]].Title) = 200

\* C11: the status of a response is fixed by the outcome of the call of
\* the usecase: NotFound 404, InvalidID 400, Validation (wrapped or not)
\* 400, any other error 500 with the text "internal server error"; a
\* successful create 201, get, list or update 200, delete 204.
C11_StatusByOutcome ==
    \A p \in SeqProcs :
        pc[p] = "responded"
        /\ loc[p].op \in {"createTask", "getTask", "listTasks", "updateTask",
                          "deleteTask"}
        => LET e == loc[p].err
               r == loc[p].resp
           IN /\ e.is = "task not found" => r.code = 404
              /\ e.is = "invalid task ID" => r.code = 400
              /\ e.is = "validation error" => r.code = 400
              /\ e.is \notin {"", "task not found", "invalid task ID",
                               "validation error"}
                   => r.code = 500 /\ r.msg = "internal server error"
              /\ e = NilErr /\ loc[p].op = "createTask" => r.code = 201
              /\ e = NilErr /\ loc[p].op \in {"getTask", "listTasks", "updateTask"}
                   => r.code = 200
              /\ e = NilErr /\ loc[p].op = "deleteTask" => r.code = 204

\* the usecase has refused the title "ab" of a create with a wrapped
\* Validation error, and the response is 400
C11_Witness ==
    \E p \in SeqProcs :
        /\ pc[p] = "responded" /\ loc[p].op = "createTask"
        /\ loc[p].err.is = "validation error" /\ loc[p].err.msg # ""
        /\ loc[p].resp.code = 400
        /\ tasks # <<>>

\* C12: a get, update or delete whose path ID is no base-10 int64, and a
\* create or update whose body json.Decoder refuses (no JSON text, a JSON
\* value that is neither an object nor null, an object with a field of the
\* wrong type), is answered with 400 without a call of the usecase and
\* without a change of the store; the update checks the ID before the
\* body.  A body of JSON null with a good ID is not refused: the handler
\* calls the usecase with an empty request.
C12_BadPath(l) ==
    /\ l.op \in {"Delivery.GetTask", "Delivery.UpdateTask", "Delivery.DeleteTask"}
    /\ l.path \in {PathWord, PathMixed, PathTooBig, <<>>}

C12_BadBody(l) ==
    \/ /\ l.op \in {"Delivery.CreateTask", "Delivery.UpdateTask"}
       /\ l.body \in {NoBody, BodyString, BodyNumber}
    \/ /\ l.op = "Delivery.UpdateTask"
       /\ l.body = BodyStatus5

C12_NullBody(l) ==
    /\ l.op \in {"Delivery.CreateTask", "Delivery.UpdateTask"}
    /\ l.body = BodyNull

C12_Refused(p) ==
    /\ pc'[p] = "responded"
    /\ loc'[p].resp.code = 400
    /\ loc'[p].op = loc[p].op
    /\ tasks' = tasks /\ heap' = heap /\ mu' = mu
    /\ C12_BadPath(loc[p]) => loc'[p].resp.msg = "invalid task ID"

C12_BadRequestRefused ==
    [][\A p \in SeqProcs :
         pc[p] = "dv_call" /\ pc'[p] # "dv_call"
         => /\ C12_BadPath(loc[p]) \/ C12_BadBody(loc[p]) => C12_Refused(p)
            /\ C12_NullBody(loc[p]) /\ ~C12_BadPath(loc[p])
                 => /\ loc'[p].op = UsecaseOp(loc[p].op)
                    /\ loc'[p].title = <<>> /\ loc'[p].desc = <<>>
                    /\ loc'[p].resp = NoResponse]_vars

\* an update with a bad ID and a bad body was refused for its ID, with a
\* task in the store
C12_Witness ==
    \E p \in SeqProcs :
        /\ pc[p] = "responded" /\ loc[p].op = "Delivery.UpdateTask"
        /\ C12_BadPath(loc[p]) /\ C12_BadBody(loc[p])
        /\ loc[p].resp = [code |-> 400, msg |-> "invalid task ID"]
        /\ tasks # <<>>

\* C12 as stated: every create or update whose body is no JSON object,
\* null included, is answered with 400 by the handler, without a call of
\* the usecase and without a change of the store.
C12_NotAnObject(l) ==
    /\ l.op \in {"Delivery.CreateTask", "Delivery.UpdateTask"}
    /\ l.body.kind # "object"

C12_NonObjectRefused ==
    [][\A p \in SeqProcs :
         /\ pc[p] = "dv_call" /\ pc'[p] # "dv_call"
         /\ C12_BadPath(loc[p]) \/ C12_NotAnObject(loc[p])
         => C12_Refused(p)]_vars

\* C13: an error of a store operation is returned by the usecase
\* operation that called it as the same value, with no task, and the
\* operation returns at once: the store is not called again.
C13_StoreFailed(p) ==
    /\ loc[p].op \in {"createTask", "getTask", "listTasks", "updateTask",
                      "deleteTask"}
    /\ pc[p] \in {"rc_unlock", "rg_unlock", "rd_unlock", "ru_unlock"}
    /\ loc[p].err # NilErr

C13_ErrorsPropagate ==
    [][\A p \in AllProcs :
         C13_StoreFailed(p) /\ pc'[p] # pc[p]
         => /\ pc'[p] = "done"
            /\ loc'[p].err = loc[p].err
            /\ loc'[p].ret = 0
            /\ loc'[p].op = loc[p].op]_vars

\* an updateTask has returned NotFound from the store's update: its
\* lookup had succeeded (it has set the status), then a concurrent
\* deleteTask removed the task
C13_Witness ==
    \E p, q \in AllProcs :
        /\ pc[p] = "done" /\ loc[p].op = "updateTask"
        /\ loc[p].err = ErrTaskNotFound /\ loc[p].status = StatusCompleted
        /\ loc[q].op = "deleteTask" /\ loc[q].err = NilErr /\ pc[q] = "done"
        /\ tasks = <<>>
        /\ \E o \in 1..Len(heap) : heap[o].Status = StatusCompleted

\* C14: the store's create fails with InvalidID for a negative ID and
\* leaves the store as it was; no task is ever stored under a negative ID.
C14_NoNegativeID ==
    /\ [](\A k \in DOMAIN tasks : k >= 0)
    /\ [][\A p \in SeqProcs :
            /\ pc[p] = "rc_lock" /\ pc'[p] = "rc_unlock"
            /\ heap[loc[p].task].ID < 0
            => /\ loc'[p].err = ErrInvalidID
               /\ loc'[p].ret = 0
               /\ tasks' = tasks
               /\ heap' = heap]_vars

\* a create of the ID -1 was refused while a task was stored
C14_Witness ==
    \E p \in SeqProcs :
        /\ pc[p] = "rc_unlock" /\ loc[p].op = "Store.CreateTask"
        /\ loc[p].id < 0
        /\ loc[p].err = ErrInvalidID
        /\ tasks # <<>>

C16_CreateOverwrites ==
    [][\A p \in SeqProcs :
         /\ pc[p] = "rc_lock" /\ pc'[p] = "rc_unlock"
         /\ heap[loc[p].task].ID >= 0
         /\ heap[loc[p].task].ID \in DOMAIN tasks
         => LET id == heap[loc[p].task].ID IN
            /\ loc'[p].err = NilErr
            /\ loc'[p].ret = loc[p].task
            /\ DOMAIN tasks' = DOMAIN tasks
            /\ tasks'[id] = loc[p].task
            /\ tasks'[id] # tasks[id]
            /\ \A k \in DOMAIN tasks \ {id} : tasks'[k] = tasks[k]
            /\ heap'[loc[p].task].CreatedAt = clock
            /\ heap'[loc[p].task].UpdatedAt = clock
            /\ \A o \in 1..Len(heap) : o # loc[p].task => heap'[o] = heap[o]]_vars

\* a second create of the ID 0 has replaced the first, later, next to a
\* task with the ID 1
C16_Witness ==
    \E p \in SeqProcs :
        /\ pc[p] = "rc_unlock" /\ loc[p].op = "Store.CreateTask"
        /\ loc[p].err = NilErr
        /\ tasks[loc[p].id] = loc[p].task
        /\ \E o \in 1..Len(heap) :
             /\ o # loc[p].task /\ heap[o].ID = loc[p].id
             /\ heap[o].CreatedAt < heap[loc[p].task].CreatedAt
        /\ Cardinality(DOMAIN tasks) = 2

\* C17: updateTask with a non-empty newStatus on a stored task sets the
\* stored status to that value unchecked, whatever the status was and
\* whether or not the value is one of pending, in_progress, completed.
C17_StatusUnchecked ==
    [][\A p \in SeqProcs :
         loc[p].op = "updateTask" /\ loc[p].status # ""
         => /\ pc[p] = "uu_status" /\ pc'[p] # "uu_status"
                 => heap'[tasks[loc[p].id]].Status = loc[p].status
            /\ pc[p] # "done" /\ pc'[p] = "done" /\ loc'[p].err = NilErr
                 => /\ heap'[tasks[loc[p].id]].Status = loc[p].status
                    /\ heap'[loc'[p].ret].Status = loc[p].status]_vars

\* an update has stored the status "bogus" in a task
C17_Witness ==
    \E p \in SeqProcs :
        /\ pc[p] = "done" /\ loc[p].op = "updateTask" /\ loc[p].err = NilErr
        /\ loc[p].status \notin {"", StatusPending, StatusInProgress, StatusCompleted}
        /\ heap[tasks[loc[p].id]].Status = loc[p].status

\* C18: the map and the fields of the tasks stored in it are written only
\* by a step of a store operation that holds the write lock, with no
\* reader holding the lock; the usecase writes no stored task.
C18_WritesUnderLock ==
    [][\/ tasks' # tasks
       \/ \E o \in Stored : heap'[o] # heap[o]
       => /\ mu'.w # 0
          /\ mu.w \in {0, mu'.w}
          /\ mu.r = {}
          /\ pc[mu'.w] \in {"rc_lock", "rd_lock", "ru_stTitle", "ru_stDesc",
                             "ru_stStatus", "ru_stamp"}]_vars

\* C19: every store operation takes the lock once and releases it on
\* every path, and no call of the store is made by a goroutine that holds
\* the lock; so with finitely many calls and a fair scheduler every call
\* returns, and the lock is free when all have returned.
C19_InStore(p) ==
    pc[p] \in {"rc_unlock", "rg_unlock", "rl_loop", "rd_unlock", "ru_ldTitle",
               "ru_stTitle", "ru_ldDesc", "ru_stDesc", "ru_ldStatus",
               "ru_stStatus", "ru_now", "ru_stamp", "ru_unlock"}

C19_AllReturn ==
    /\ [](\A p \in AllProcs : p = mu.w \/ p \in mu.r <=> C19_InStore(p))
    /\ []((\A p \in AllProcs : Idle(p)) => mu = [w |-> 0, r |-> {}])
    /\ \A p \in Procs : pc[p] \notin {"idle", "done"} ~> pc[p] = "done"

\* all calls have returned and the lock is free, after a deleteTask that
\* failed, a createTask and an updateTask that succeeded
C19_Witness ==
    \E p, q \in Procs :
        /\ pc[p] = "done" /\ pc[q] = "done"
        /\ calls = 3
        /\ mu = [w |-> 0, r |-> {}]
        /\ loc[p].op = "deleteTask" /\ loc[p].err = ErrTaskNotFound
        /\ loc[q].op = "updateTask" /\ loc[q].err = NilErr

\* C20: an updateTask call that fails with a Validation error (its new
\* title or its new description is not valid) changes nothing in the
\* store at any of its steps, also when only the description is invalid.
C20_Invalid(l) ==
    \/ l.title # <<>> /\ CheckTaskTitle(l.title) # NilErr
    \/ l.desc # <<>> /\ CheckTaskDescription(l.desc) # NilErr

C20_FailedUpdateKeepsTask ==
    [][\A p \in SeqProcs :
         /\ loc[p].op = "updateTask" /\ pc[p] \notin {"idle", "done"}
         /\ C20_Invalid(loc[p])
         => /\ tasks' = tasks
            /\ heap' = heap
            /\ pc'[p] = "done" /\ loc[p].id \in DOMAIN tasks
                 => ErrorsIs(loc'[p].err, ErrValidation)]_vars

\* C21: only a create adds an ID to the store and only a delete removes
\* one; no step of getTask, listTasks or updateTask changes the set of
\* stored IDs.  A successful deleteTask leaves its ID absent, an update
\* that reaches the store after it fails with NotFound and writes
\* nothing, and an update that succeeds finds its ID stored.
C21_Stepped(p) == pc'[p] # pc[p] \/ loc'[p] # loc[p]

C21_OnlyCreateAddsDeleteRemoves ==
    [][/\ DOMAIN tasks' # DOMAIN tasks =>
            \E p \in AllProcs :
              \/ /\ pc[p] = "rc_lock" /\ pc'[p] = "rc_unlock"
                 /\ DOMAIN tasks' = DOMAIN tasks \cup {heap[loc[p].task].ID}
              \/ /\ pc[p] = "rd_lock" /\ pc'[p] = "rd_unlock"
                 /\ DOMAIN tasks' = DOMAIN tasks \ {loc[p].id}
       /\ \A p \in AllProcs :
            /\ loc[p].op \in {"getTask", "listTasks", "updateTask"}
                 /\ pc[p] \notin {"idle", "done"} /\ C21_Stepped(p)
                 => tasks' = tasks
            /\ pc[p] = "rd_lock" /\ pc'[p] = "rd_unlock" /\ loc'[p].err = NilErr
                 => loc[p].id \in DOMAIN tasks /\ loc[p].id \notin DOMAIN tasks'
            /\ loc[p].op = "updateTask" /\ pc[p] = "ru_lock" /\ pc'[p] # "ru_lock"
                 /\ loc[p].id \notin DOMAIN tasks
                 => /\ loc'[p].err = ErrTaskNotFound
                    /\ pc'[p] = "ru_unlock"
                    /\ heap' = heap
            /\ loc[p].op = "updateTask" /\ pc[p] = "ru_unlock" /\ pc'[p] = "done"
                 /\ loc'[p].err = NilErr
                 => loc[p].id \in DOMAIN tasks']_vars

\* an updateTask that had set the title "xyz" in the task was overtaken
\* by a deleteTask and has failed with NotFound; the ID is absent
C21_Witness ==
    \E p, q \in AllProcs :
        /\ pc[p] = "done" /\ loc[p].op = "updateTask"
        /\ loc[p].err = ErrTaskNotFound /\ loc[p].title = TitleXyz
        /\ pc[q] = "done" /\ loc[q].op = "deleteTask" /\ loc[q].err = NilErr
        /\ loc[p].id = loc[q].id /\ loc[p].id \notin DOMAIN tasks
        /\ \E o \in 1..Len(heap) : heap[o].Title = TitleXyz

\* C22: two concurrent updateTask calls on one stored ID, one with a new
\* title only and one with a new status only, both take effect: when
\* both have returned successfully the stored task has the new title and
\* the new status.
C22_NoLostUpdate ==
    \A p, q \in Procs :
        /\ pc[p] = "done" /\ loc[p].op = "updateTask" /\ loc[p].err = NilErr
        /\ pc[q] = "done" /\ loc[q].op = "updateTask" /\ loc[q].err = NilErr
        /\ loc[p].id = loc[q].id
        /\ loc[p].title # <<>> /\ loc[p].desc = <<>> /\ loc[p].status = ""
        /\ loc[q].title = <<>> /\ loc[q].desc = <<>> /\ loc[q].status # ""
        /\ calls = 3
        => /\ loc[p].id \in DOMAIN tasks
           /\ heap[tasks[loc[p].id]].Title = loc[p].title
           /\ heap[tasks[loc[p].id]].Status = loc[q].status

\* C23: when ListenAndServe has returned an error other than
\* ErrServerClosed, main eventually takes the serverErr branch, logs the
\* start failure and exits with code 1, whether or not a signal arrives
\* (unless a signal ends the process before signal.Notify has run); and a
\* main that has received SIGINT or SIGTERM calls server.Shutdown before
\* it ends.
C23_StartFailed ==
    /\ pc[SrvG] = "srv_done"
    /\ loc[SrvG].err \notin {NilErr, ErrServerClosed}

C23_ExitsOnStartFailure ==
    /\ C23_StartFailed ~> \/ /\ pc[MainG] = "exited"
                             /\ loc[MainG].exit = 1
                             /\ "failed to start server" \in loc[MainG].logged
                          \/ pc[MainG] = "killed"
    /\ [](pc[MainG] = "exited" /\ "server is shutting down" \in loc[MainG].logged
             => loc[MainG].shutdown)

====
